---------------------------- MODULE Spec2Model ----------------------------
(***************************************************************************)
(* A model of knack's presentation layer:                                  *)
(*   - clicore/output.py : OutputProducer.out, the table and tsv formats   *)
(*   - knack/help.py     : CLIHelp.show_welcome, the argument listing      *)
(* Text is a sequence of one-character strings, so that capitalisation,    *)
(* lower-casing, concatenation and Python's code point ordering of strings *)
(* are computed and not assumed.                                           *)
(***************************************************************************)
EXTENDS Integers, Sequences, FiniteSets, TLC

VARIABLES
    \* OutputProducer.out
    out_pc,          \* position inside out(): idle, check, format, print, retry, done
    obj,             \* the argument of the running call
    platform,        \* platform.system()
    file,            \* self.file: [encoding, wrapped, content]
    output,          \* the local `output` of out()
    formatted,       \* the strategy has returned a complete string
    formatterCalls,  \* number of invocations of self.formatter in this call
    log,             \* the print attempts of this call: <<[text, result]>>
    raised,          \* the exception that left out(), "none" if none
    calls,           \* number of calls of out() started so far
    content0,        \* what the stream held when the running call started
    \* CLIHelp.show_welcome
    w_pc,            \* position inside show_welcome(): idle, privacy, welcome, list
    config,          \* the configuration store shared by all invocations
    w_run,           \* number of invocations of show_welcome started so far
    w_help,          \* the CLIHelp and parser of the running invocation
    printed,         \* everything printed so far: <<[run, what, text]>>
    \* _format_table
    tbl_pc,          \* start, done
    tbl_obj,         \* the CommandResultItem: [result, table_transformer, is_query_active]
    tbl_out,         \* what _format_table returned or raised
    \* _format_tsv
    tsv_pc,          \* start, done
    tsv_obj,         \* the CommandResultItem
    tsv_out,         \* the text _format_tsv returned
    \* CLIHelp._print_arguments
    arg_pc,          \* start, done
    arg_parameters,  \* help_file.parameters
    arg_out,         \* the lines printed
    \* CLIHelp.show_help of a command
    sh_pc,           \* idle, start, load, merge, print, done, raised
    sh_parser,       \* parser: [description, help_file, has_defaults, actions]
    sh_help_files,   \* the document _load_help_file holds for the command
    sh_help_file,    \* help_file, the CommandHelpFile
    sh_file_data,    \* file_data, the document load() merges
    sh_raised,       \* the exception that left show_help, "none" if none
    sh_out           \* what _print_detailed_help printed

outVars == <<out_pc, obj, platform, file, output, formatted, formatterCalls,
             log, raised, calls, content0>>

welcomeVars == <<w_pc, config, w_run, w_help, printed>>

tableVars == <<tbl_pc, tbl_obj, tbl_out>>

tsvVars == <<tsv_pc, tsv_obj, tsv_out>>

argVars == <<arg_pc, arg_parameters, arg_out>>

helpVars == <<sh_pc, sh_parser, sh_help_files, sh_help_file, sh_file_data, sh_raised, sh_out>>

vars == <<outVars, welcomeVars, tableVars, tsvVars, argVars, helpVars>>

\* What the actions of one component leave alone.
notOut == <<welcomeVars, tableVars, tsvVars, argVars, helpVars>>
notWelcome == <<outVars, tableVars, tsvVars, argVars, helpVars>>
notTable == <<outVars, welcomeVars, tsvVars, argVars, helpVars>>
notTsv == <<outVars, welcomeVars, tableVars, argVars, helpVars>>
notArg == <<outVars, welcomeVars, tableVars, tsvVars, helpVars>>
notHelp == <<outVars, welcomeVars, tableVars, tsvVars, argVars>>

-----------------------------------------------------------------------------
(* Text *)

\* The printable ASCII characters in code point order: ASCII[i] has code i + 31
\* (the double quote and the backslash are written as the tokens QUOTE, BACKSLASH,
\* the grave accent as BACKTICK).
ASCII ==
    << " ", "!", "QUOTE", "#", "$", "%", "&", "'", "(", ")", "*", "+", ",", "-", ".", "/",
       "0", "1", "2", "3", "4", "5", "6", "7", "8", "9", ":", ";", "<", "=", ">", "?",
       "@", "A", "B", "C", "D", "E", "F", "G", "H", "I", "J", "K", "L", "M", "N", "O",
       "P", "Q", "R", "S", "T", "U", "V", "W", "X", "Y", "Z", "[", "BACKSLASH", "]", "^", "_",
       "BACKTICK", "a", "b", "c", "d", "e", "f", "g", "h", "i", "j", "k", "l", "m", "n", "o",
       "p", "q", "r", "s", "t", "u", "v", "w", "x", "y", "z", "{", "|", "}", "~" >>

\* Control characters and two characters outside ASCII, named by their code points.
TAB == "\t"
NL == "\n"
LATIN_E_ACUTE == "U+00E9"
EURO_SIGN == "U+20AC"

AsciiChars == {ASCII[i] : i \in 1..Len(ASCII)} \cup {TAB, NL}

\* ord(c), tabulated once
OrdTable ==
    [c \in AsciiChars \cup {LATIN_E_ACUTE, EURO_SIGN} |->
        CASE c = TAB -> 9
          [] c = NL -> 10
          [] c = LATIN_E_ACUTE -> 233
          [] c = EURO_SIGN -> 8364
          [] OTHER -> 31 + (CHOOSE i \in 1..Len(ASCII) : ASCII[i] = c)]

Ord(c) == OrdTable[c]

IsAscii(c) == c \in AsciiChars

\* chr(n) for a printable ASCII code
Chr(n) == ASCII[n - 31]

IsLower(c) == IsAscii(c) /\ Ord(c) >= Ord("a") /\ Ord(c) <= Ord("z")
IsUpper(c) == IsAscii(c) /\ Ord(c) >= Ord("A") /\ Ord(c) <= Ord("Z")

\* str.upper() and str.lower() on one ASCII character
UpperChar(c) == IF IsLower(c) THEN Chr(Ord(c) - (Ord("a") - Ord("A"))) ELSE c
LowerChar(c) == IF IsUpper(c) THEN Chr(Ord(c) + (Ord("a") - Ord("A"))) ELSE c

StrLower(s) == [i \in 1..Len(s) |-> LowerChar(s[i])]

\* Python's s < t on text: the first differing code point decides, a proper
\* prefix is smaller.
RECURSIVE StrLess(_, _)
StrLess(s, t) ==
    IF t = <<>> THEN FALSE
    ELSE IF s = <<>> THEN TRUE
    ELSE IF Head(s) = Head(t) THEN StrLess(Tail(s), Tail(t))
    ELSE Ord(Head(s)) < Ord(Head(t))

StrLeq(s, t) == s = t \/ StrLess(s, t)

\* str(n) for a natural number
RECURSIVE IntToStr(_)
IntToStr(n) ==
    IF n < 10 THEN <<Chr(Ord("0") + n)>>
    ELSE IntToStr(n \div 10) \o <<Chr(Ord("0") + (n % 10))>>

\* sorted(strings): insertion into a sorted sequence, equal strings keep their order.
RECURSIVE Insort(_, _)
Insort(x, sorted) ==
    IF sorted = <<>> THEN <<x>>
    ELSE IF StrLess(x, Head(sorted)) THEN <<x>> \o sorted
    ELSE <<Head(sorted)>> \o Insort(x, Tail(sorted))

RECURSIVE Sorted(_)
Sorted(names) ==
    IF names = <<>> THEN <<>>
    ELSE Insort(names[Len(names)], Sorted(SubSeq(names, 1, Len(names) - 1)))

-----------------------------------------------------------------------------
(* clicore/output.py: OutputProducer.out *)

\* Bounds of the model
MaxCalls == 2

\* output.encode('ascii', 'ignore').decode('utf-8', 'ignore'): the characters
\* ASCII cannot encode are dropped, the ASCII bytes decode to themselves.
AsciiIgnore(s) == SelectSeq(s, IsAscii)

\* Whether the stream's encoding can encode a character.
Encodable(c, encoding) ==
    CASE encoding = "utf-8" -> TRUE
      [] encoding = "latin-1" -> IsAscii(c) \/ c = LATIN_E_ACUTE
      [] OTHER -> IsAscii(c)

Encodings == {"utf-8", "latin-1", "ascii"}

\* The texts a format strategy returns here: plain, with one character latin-1
\* can encode, with one only utf-8 can.
Texts == { <<"a", NL>>, <<"a", LATIN_E_ACUTE, NL>>, <<EURO_SIGN, "b", NL>> }

\* The arguments of out(): a CommandResultItem or something else, and what the
\* selected strategy does with it (returns `text`, or raises).
Objects ==
    [isItem : BOOLEAN, strategyRaises : BOOLEAN, text : Texts]

\* The results of print(text, file=self.file, end=''): written, an IOError with
\* errno EPIPE or another errno, or a UnicodeEncodeError when the stream's
\* encoding cannot encode some character of the text.
PrintResults(text, f) ==
    {"ok", "IOError:EPIPE", "IOError:EIO"}
        \cup IF \E i \in 1..Len(text) : ~Encodable(text[i], f.encoding)
             THEN {"UnicodeEncodeError"} ELSE {}

\* The stream after print(text) ended with result r: text reaches it only when
\* the write succeeded.
Written(f, text, r) ==
    IF r = "ok" THEN [f EXCEPT !.content = Append(@, text)] ELSE f

\* No call is running.
NoObject == [isItem |-> FALSE, strategyRaises |-> FALSE, text |-> <<>>]

OutIdle ==
    /\ out_pc = "idle"
    /\ obj = NoObject
    /\ platform = "Linux"
    /\ file = [encoding |-> "utf-8", wrapped |-> FALSE, content |-> <<>>]
    /\ output = <<>>
    /\ formatted = FALSE
    /\ formatterCalls = 0
    /\ log = <<>>
    /\ raised = "none"
    /\ calls = 0
    /\ content0 = <<>>

OutInit ==
    /\ out_pc = "idle"
    /\ obj = NoObject
    /\ platform \in {"Linux", "Windows"}
    /\ file \in [encoding : Encodings, wrapped : {FALSE}, content : {<<>>}]
    /\ output = <<>>
    /\ formatted = FALSE
    /\ formatterCalls = 0
    /\ log = <<>>
    /\ raised = "none"
    /\ calls = 0
    /\ content0 = <<>>

\* out(obj) is called.
out_call ==
    /\ out_pc = "idle"
    /\ calls < MaxCalls
    /\ \E o \in Objects : obj' = o
    /\ out_pc' = "check"
    /\ calls' = calls + 1
    /\ output' = <<>>
    /\ formatted' = FALSE
    /\ formatterCalls' = 0
    /\ log' = <<>>
    /\ raised' = "none"
    /\ content0' = file.content
    /\ UNCHANGED <<platform, file>>
    /\ UNCHANGED notOut

\* The type check left out: every argument goes on to the strategy.
out_typecheck_unchecked ==
    /\ out_pc = "check"
    /\ out_pc' = "format"
    /\ UNCHANGED <<obj, platform, file, output, formatted, formatterCalls, log, calls,
                   content0, raised>>
    /\ UNCHANGED notOut

\* if not isinstance(obj, CommandResultItem): raise TypeError(...)
out_typecheck ==
    /\ out_pc = "check"
    /\ IF obj.isItem
       THEN /\ out_pc' = "format"
            /\ UNCHANGED raised
       ELSE /\ out_pc' = "done"
            /\ raised' = "TypeError"
    /\ UNCHANGED <<obj, platform, file, output, formatted, formatterCalls, log, calls, content0>>
    /\ UNCHANGED notOut

\* On Windows self.file becomes the AnsiToWin32 stream; then
\* output = self.formatter(obj), which returns a string or raises.
out_format ==
    /\ out_pc = "format"
    /\ file' = IF platform = "Windows" THEN [file EXCEPT !.wrapped = TRUE] ELSE file
    /\ formatterCalls' = formatterCalls + 1
    /\ IF obj.strategyRaises
       THEN /\ raised' = "StrategyError"
            /\ out_pc' = "done"
            /\ UNCHANGED <<output, formatted>>
       ELSE /\ output' = obj.text
            /\ formatted' = TRUE
            /\ out_pc' = "print"
            /\ UNCHANGED raised
    /\ UNCHANGED <<obj, platform, log, calls, content0>>
    /\ UNCHANGED notOut

\* try: print(output, file=self.file, end='')
\* except IOError as ex: EPIPE is passed over, any other errno is re-raised
\* except UnicodeEncodeError: the handler prints again
out_print ==
    /\ out_pc = "print"
    /\ \E r \in PrintResults(output, file) :
        /\ log' = Append(log, [text |-> output, result |-> r])
        /\ file' = Written(file, output, r)
        /\ CASE r = "ok" -> out_pc' = "done" /\ UNCHANGED raised
             [] r = "IOError:EPIPE" -> out_pc' = "done" /\ UNCHANGED raised
             [] r = "UnicodeEncodeError" -> out_pc' = "retry" /\ UNCHANGED raised
             [] OTHER -> out_pc' = "done" /\ raised' = r
    /\ UNCHANGED <<obj, platform, output, formatted, formatterCalls, calls, content0>>
    /\ UNCHANGED notOut

\* A handler that prints again for as long as the print fails.
out_retry_again ==
    /\ out_pc = "retry"
    /\ \E r \in PrintResults(AsciiIgnore(output), file) :
        /\ log' = Append(log, [text |-> AsciiIgnore(output), result |-> r])
        /\ file' = Written(file, AsciiIgnore(output), r)
        /\ out_pc' = IF r = "ok" THEN "done" ELSE "retry"
        /\ UNCHANGED raised
    /\ UNCHANGED <<obj, platform, output, formatted, formatterCalls, calls, content0>>
    /\ UNCHANGED notOut

\* The UnicodeEncodeError handler: print(output.encode('ascii', 'ignore')
\* .decode('utf-8', 'ignore'), file=self.file, end=''). It runs outside the try
\* block, so whatever this print raises leaves out().
out_retry ==
    /\ out_pc = "retry"
    /\ \E r \in PrintResults(AsciiIgnore(output), file) :
        /\ log' = Append(log, [text |-> AsciiIgnore(output), result |-> r])
        /\ file' = Written(file, AsciiIgnore(output), r)
        /\ out_pc' = "done"
        /\ raised' = IF r = "ok" THEN raised ELSE r
    /\ UNCHANGED <<obj, platform, output, formatted, formatterCalls, calls, content0>>
    /\ UNCHANGED notOut

\* out() has returned or raised; the producer is ready for the next call.
out_return ==
    /\ out_pc = "done"
    /\ calls < MaxCalls
    /\ out_pc' = "idle"
    /\ UNCHANGED <<obj, platform, file, output, formatted, formatterCalls, log,
                   raised, calls, content0>>
    /\ UNCHANGED notOut

OutNext ==
    \/ out_call
    \/ out_typecheck
    \/ out_format
    \/ out_print
    \/ out_retry
    \/ out_return

-----------------------------------------------------------------------------
(* knack/help.py: CLIHelp.show_welcome *)

\* Bounds of the model
MaxRuns == 3

\* The configuration store: each (section, key) holds a value or is unset.
ConfigKeys == {<<"core", "first_run">>}
UNSET == "<unset>"

\* config.getboolean(section, key, fallback=...)
getboolean(cfg, section, key, fallback) ==
    IF cfg[<<section, key>>] = UNSET
    THEN fallback
    ELSE cfg[<<section, key>>] \in {"1", "yes", "true", "on"}

\* config.set_value(section, key, value)
set_value(cfg, section, key, value) ==
    [cfg EXCEPT ![<<section, key>>] = value]

\* The CLIHelp objects and parsers of the invocations: a privacy statement
\* (possibly empty), a welcome message, and the names of the parser's choices.
PrivacyStatements == { <<>>, <<"P", "r", "i", "v", "a", "c", "y">> }
WelcomeMessages == { <<"H", "i">> }
ChildNames == { <<>>, << <<"v", "m">> >>, << <<"v", "m">>, <<"n", "e", "t">> >> }

Helps ==
    [privacy_statement : PrivacyStatements,
     welcome_message : WelcomeMessages,
     children : ChildNames]

NoHelp == [privacy_statement |-> <<>>, welcome_message |-> <<>>, children |-> <<>>]

WelcomeIdle ==
    /\ w_pc = "idle"
    /\ config = [k \in ConfigKeys |-> UNSET]
    /\ w_run = 0
    /\ w_help = NoHelp
    /\ printed = <<>>

WelcomeInit == WelcomeIdle

\* One print of the running invocation.
Line(what, text) == [run |-> w_run, what |-> what, text |-> text]

\* show_welcome(parser) is called on a CLIHelp that shares the store.
show_welcome ==
    /\ w_pc = "idle"
    /\ w_run < MaxRuns
    /\ \E h \in Helps : w_help' = h
    /\ w_run' = w_run + 1
    /\ w_pc' = "privacy"
    /\ UNCHANGED <<config, printed>>
    /\ UNCHANGED notWelcome

\* A privacy step that records the first run only when it printed the notice.
show_privacy_statement_set_if_printed ==
    /\ w_pc = "privacy"
    /\ IF ~getboolean(config, "core", "first_run", FALSE) /\ w_help.privacy_statement # <<>>
       THEN /\ printed' = Append(printed, Line("privacy", w_help.privacy_statement))
            /\ config' = set_value(config, "core", "first_run", "yes")
       ELSE UNCHANGED <<config, printed>>
    /\ w_pc' = "welcome"
    /\ UNCHANGED <<w_run, w_help>>
    /\ UNCHANGED notWelcome

\* show_privacy_statement()
show_privacy_statement ==
    /\ w_pc = "privacy"
    /\ LET ran_before == getboolean(config, "core", "first_run", FALSE)
       IN IF ~ran_before
          THEN /\ printed' = IF w_help.privacy_statement # <<>>
                             THEN Append(printed, Line("privacy", w_help.privacy_statement))
                             ELSE printed
               /\ config' = set_value(config, "core", "first_run", "yes")
          ELSE UNCHANGED <<config, printed>>
    /\ w_pc' = "welcome"
    /\ UNCHANGED <<w_run, w_help>>
    /\ UNCHANGED notWelcome

\* show_welcome_message(): _print_indent(self.welcome_message)
show_welcome_message ==
    /\ w_pc = "welcome"
    /\ printed' = Append(printed, Line("welcome", w_help.welcome_message))
    /\ w_pc' = "list"
    /\ UNCHANGED <<config, w_run, w_help>>
    /\ UNCHANGED notWelcome

\* help_file = GroupHelpFile('', parser); print_description_list(help_file.children):
\* one line per child, sorted by name. show_welcome returns.
print_description_list ==
    /\ w_pc = "list"
    /\ LET names == Sorted(w_help.children)
       IN printed' = printed \o [i \in 1..Len(names) |-> Line("description", names[i])]
    /\ w_pc' = "idle"
    /\ UNCHANGED <<config, w_run, w_help>>
    /\ UNCHANGED notWelcome

WelcomeNext ==
    \/ show_welcome
    \/ show_privacy_statement
    \/ show_welcome_message
    \/ print_description_list

-----------------------------------------------------------------------------
(* Python values: the results handed to the format strategies *)

\* One record shape for every value: t is the type, b a bool's value, n an
\* int's value or a set's size, s a str's text, keys and items a dict's keys
\* and values in iteration order (ordered: an OrderedDict), items a list's
\* elements.
PyValue(t, b, n, s, keys, items, ordered) ==
    [t |-> t, b |-> b, n |-> n, s |-> s, keys |-> keys, items |-> items,
     ordered |-> ordered]

PyNone == PyValue("none", FALSE, 0, <<>>, <<>>, <<>>, FALSE)
PyBool(b) == PyValue("bool", b, 0, <<>>, <<>>, <<>>, FALSE)
PyInt(n) == PyValue("int", FALSE, n, <<>>, <<>>, <<>>, FALSE)
PyStr(s) == PyValue("str", FALSE, 0, s, <<>>, <<>>, FALSE)
PyList(items) == PyValue("list", FALSE, 0, <<>>, <<>>, items, FALSE)
PySet(n) == PyValue("set", FALSE, n, <<>>, <<>>, <<>>, FALSE)
PyDict(keys, items) == PyValue("dict", FALSE, 0, <<>>, keys, items, FALSE)
OrderedDict(keys, items) == PyValue("dict", FALSE, 0, <<>>, keys, items, TRUE)

\* bool(v): Python's truth value
Truthy(v) ==
    CASE v.t = "none" -> FALSE
      [] v.t = "bool" -> v.b
      [] v.t = "int" -> v.n # 0
      [] v.t = "str" -> v.s # <<>>
      [] v.t = "list" -> v.items # <<>>
      [] v.t = "dict" -> v.keys # <<>>
      [] OTHER -> v.n # 0

\* d[k]
DictGet(d, k) == d.items[CHOOSE i \in 1..Len(d.keys) : d.keys[i] = k]

\* d[k] = v: a present key keeps its place, a new key goes last.
DictSet(d, k, v) ==
    IF \E i \in 1..Len(d.keys) : d.keys[i] = k
    THEN [d EXCEPT !.items[CHOOSE i \in 1..Len(d.keys) : d.keys[i] = k] = v]
    ELSE [d EXCEPT !.keys = Append(@, k), !.items = Append(@, v)]

-----------------------------------------------------------------------------
(* clicore/output.py: _format_table and _TableOutput *)

\* Bounds of the model
MaxKeys == 2
MaxRecords == 2

\* SKIP_KEYS = ['id', 'type', 'etag']
SKIP_KEYS == << <<"i", "d">>, <<"t", "y", "p", "e">>, <<"e", "t", "a", "g">> >>

\* k in _TableOutput.SKIP_KEYS, if the comparison ignored case
InSkipKeysIgnoringCase(k) ==
    \E i \in 1..Len(SKIP_KEYS) : SKIP_KEYS[i] = StrLower(k)

\* k in _TableOutput.SKIP_KEYS
InSkipKeys(k) ==
    \E i \in 1..Len(SKIP_KEYS) : SKIP_KEYS[i] = k

\* item[k] and not isinstance(item[k], (list, dict, set))
IsCell(v) == Truthy(v) /\ v.t \notin {"list", "dict", "set"}

\* x[0].upper() + x[1:] if x else x
_capitalize_first_char(x) ==
    IF x # <<>> THEN <<UpperChar(Head(x))>> \o Tail(x) ELSE x

\* The loop of _auto_table_item over the keys of a mapping.
RECURSIVE AutoTableColumns(_, _, _)
AutoTableColumns(item, keys, new_entry) ==
    IF keys = <<>> THEN new_entry
    ELSE LET k == Head(keys)
         IN AutoTableColumns(item, Tail(keys),
                IF InSkipKeys(k) THEN new_entry
                ELSE IF IsCell(DictGet(item, k))
                     THEN DictSet(new_entry, _capitalize_first_char(k), DictGet(item, k))
                     ELSE new_entry)

\* 'Column{}'.format(col + 1)
ColumnName(col) == <<"C", "o", "l", "u", "m", "n">> \o IntToStr(col + 1)

ResultName == <<"R", "e", "s", "u", "l", "t">>

\* _auto_table_item: a mapping gives its cells; item.keys() of anything else
\* raises AttributeError, and then a list gives Column1, Column2, ... and any
\* other value the single column Result.
_auto_table_item(should_sort_keys, item) ==
    IF item.t = "dict"
    THEN AutoTableColumns(item,
                          IF should_sort_keys THEN Sorted(item.keys) ELSE item.keys,
                          OrderedDict(<<>>, <<>>))
    ELSE IF item.t = "list"
         THEN OrderedDict([col \in 1..Len(item.items) |-> ColumnName(col - 1)], item.items)
         ELSE OrderedDict(<<ResultName>>, <<item>>)

\* _auto_table on the list dump() passes
_auto_table(should_sort_keys, result) ==
    [i \in 1..Len(result) |-> _auto_table_item(should_sort_keys, result[i])]

\* The keys of all rows, each once, in the order first seen.
RECURSIVE AllKeys(_, _)
AllKeys(table_data, seen) ==
    IF table_data = <<>> THEN seen
    ELSE AllKeys(Tail(table_data),
                 seen \o SelectSeq(Head(table_data).keys,
                                   LAMBDA k : \A i \in 1..Len(seen) : seen[i] # k))

\* tabulate(table_data, headers="keys", tablefmt="simple"): the header row of
\* all keys and one row per entry, a missing cell being None. With no column
\* at all the text is a lone line break.
tabulate(table_data) ==
    LET headers == AllKeys(table_data, <<>>)
    IN IF headers = <<>>
       THEN [kind |-> "newline", headers |-> <<>>, rows |-> <<>>]
       ELSE [kind |-> "table",
             headers |-> headers,
             rows |-> [r \in 1..Len(table_data) |->
                         [c \in 1..Len(headers) |->
                            IF \E i \in 1..Len(table_data[r].keys) :
                                   table_data[r].keys[i] = headers[c]
                            THEN DictGet(table_data[r], headers[c])
                            ELSE PyNone]]]

\* The empty string ''
EmptyText == [kind |-> "empty", headers |-> <<>>, rows |-> <<>>]

\* dump() without the check for a table with no columns
dump_unchecked(should_sort_keys, data) ==
    LET table_data == _auto_table(should_sort_keys, data)
        table_str == IF table_data # <<>> THEN tabulate(table_data) ELSE EmptyText
    IN [exc |-> "none", text |-> table_str, newline |-> TRUE, table_data |-> table_data]

\* _TableOutput(should_sort_keys).dump(data): the text of the table and a line
\* break, or ValueError when tabulate gave the lone line break. The record
\* keeps table_data, the entries _auto_table made of the data.
dump(should_sort_keys, data) ==
    LET table_data == _auto_table(should_sort_keys, data)
        table_str == IF table_data # <<>> THEN tabulate(table_data) ELSE EmptyText
    IN IF table_str.kind = "newline"
       THEN [exc |-> "ValueError", text |-> EmptyText, newline |-> FALSE,
             table_data |-> table_data]
       ELSE [exc |-> "none", text |-> table_str, newline |-> TRUE,
             table_data |-> table_data]

\* The transforms callers supply: none, one that reverses the fields of every
\* mapping, one that raises.
Transformers == {"None", "reverse_fields", "raises"}

RECURSIVE Reverse(_)
Reverse(seq) == IF seq = <<>> THEN <<>> ELSE Append(Reverse(Tail(seq)), Head(seq))

ReverseFields(v) ==
    IF v.t = "dict" THEN [v EXCEPT !.keys = Reverse(@), !.items = Reverse(@)] ELSE v

\* obj.table_transformer(result)
CallTransformer(transformer, result) ==
    IF transformer = "raises"
    THEN [exc |-> "KeyError", value |-> PyNone]
    ELSE [exc |-> "none",
          value |-> IF result.t = "list"
                    THEN [result EXCEPT !.items = [i \in 1..Len(@) |-> ReverseFields(@[i])]]
                    ELSE ReverseFields(result)]

\* The try block of _format_table, if the transform were applied to filtered
\* results too.
format_table_try_transform_always(o) ==
    LET applied == o.table_transformer # "None"
        called == CallTransformer(o.table_transformer, o.result)
        result == IF applied THEN called.value ELSE o.result
        result_list == IF result.t = "list" THEN result.items ELSE <<result>>
        should_sort_keys == ~o.is_query_active /\ o.table_transformer = "None"
    IN IF applied /\ called.exc # "none"
       THEN [exc |-> called.exc, text |-> EmptyText, newline |-> FALSE,
             table_data |-> <<>>, transformerCalls |-> 1, data |-> <<>>]
       ELSE LET dumped == dump(should_sort_keys, result_list)
            IN [exc |-> dumped.exc, text |-> dumped.text, newline |-> dumped.newline,
                table_data |-> dumped.table_data,
                transformerCalls |-> IF applied THEN 1 ELSE 0, data |-> result_list]

\* The try block of _format_table. Beside what it returns or raises, the
\* record keeps how often the transform was called and the list given to dump().
format_table_try(o) ==
    LET applied == o.table_transformer # "None" /\ ~o.is_query_active
        called == CallTransformer(o.table_transformer, o.result)
        result == IF applied THEN called.value ELSE o.result
        result_list == IF result.t = "list" THEN result.items ELSE <<result>>
        should_sort_keys == ~o.is_query_active /\ o.table_transformer = "None"
    IN IF applied /\ called.exc # "none"
       THEN [exc |-> called.exc, text |-> EmptyText, newline |-> FALSE,
             table_data |-> <<>>, transformerCalls |-> 1, data |-> <<>>]
       ELSE LET dumped == dump(should_sort_keys, result_list)
            IN [exc |-> dumped.exc, text |-> dumped.text, newline |-> dumped.newline,
                table_data |-> dumped.table_data,
                transformerCalls |-> IF applied THEN 1 ELSE 0, data |-> result_list]

\* _format_table(obj): whatever is raised inside the try block is logged and
\* CLIError is raised in its place.
_format_table(o) ==
    LET tried == format_table_try(o)
    IN IF tried.exc # "none"
       THEN [tried EXCEPT !.exc = "CLIError", !.text = EmptyText, !.newline = FALSE]
       ELSE tried

\* The keys and the cell values of the records of the model.
KeyPool ==
    { <<"i", "d">>, <<"t", "y", "p", "e">>, <<"e", "t", "a", "g">>,
      <<"I", "d">>, <<"N", "a", "m", "e">>, <<"T", "a", "g", "s">> }

Foo == <<"f", "o", "o">>

CellValues ==
    { PyNone, PyStr(<<>>), PyStr(Foo), PyStr(<<"1">>), PyInt(0), PyBool(FALSE),
      PyBool(TRUE), PyList(<<PyInt(1), PyInt(2), PyInt(3)>>), PyDict(<<>>, <<>>),
      PySet(2) }

\* No key twice.
DistinctKeys(ks) == \A i, j \in 1..Len(ks) : i # j => ks[i] # ks[j]

\* The example of the specification: [{"Name": "foo", "Id": "1", "Tags": {}}]
ExampleResult ==
    PyList(<< PyDict(<< <<"N", "a", "m", "e">>, <<"I", "d">>, <<"T", "a", "g", "s">> >>,
                     << PyStr(Foo), PyStr(<<"1">>), PyDict(<<>>, <<>>) >>) >>)

\* The elements of the lists of the model: mappings, scalars, sequences.
RowPool ==
    { PyDict(<<>>, <<>>),
      PyDict(<< <<"N", "a", "m", "e">> >>, << PyStr(Foo) >>),
      PyDict(<< <<"i", "d">>, <<"T", "a", "g", "s">> >>, << PyStr(<<"1">>), PyDict(<<>>, <<>>) >>),
      PyDict(<< <<"N", "a", "m", "e">>, <<"I", "d">> >>, << PyStr(Foo), PyStr(<<"1">>) >>),
      PyStr(Foo),
      PyList(<<>>),
      PyList(<< PyStr(Foo), PyInt(0) >>) }

\* Results that are neither a mapping nor a list.
TableScalars == { PyStr(Foo), PyBool(TRUE), PyNone }

\* CommandResultItem(result, table_transformer, is_query_active)
CommandResultItem(result, table_transformer, is_query_active) ==
    [result |-> result, table_transformer |-> table_transformer,
     is_query_active |-> is_query_active]

NoItem == CommandResultItem(PyNone, "None", FALSE)

Pending ==
    [exc |-> "pending", text |-> EmptyText, newline |-> FALSE, table_data |-> <<>>,
     transformerCalls |-> 0, data |-> <<>>]

TableIdle ==
    /\ tbl_pc = "idle"
    /\ tbl_obj = NoItem
    /\ tbl_out = Pending

\* The item holds a mapping of at most MaxKeys distinct keys in any order, a
\* list of at most MaxRecords elements, a scalar, or the example.
TableInit ==
    /\ tbl_pc = "start"
    /\ \E t \in Transformers, q \in BOOLEAN :
        \/ \E n \in 0..MaxKeys :
            \E ks \in [1..n -> KeyPool], vs \in [1..n -> CellValues] :
                /\ DistinctKeys(ks)
                /\ tbl_obj = CommandResultItem(PyDict(ks, vs), t, q)
        \/ \E n \in 0..MaxRecords :
            \E rows \in [1..n -> RowPool] :
                tbl_obj = CommandResultItem(PyList(rows), t, q)
        \/ \E r \in TableScalars \cup {ExampleResult} :
            tbl_obj = CommandResultItem(r, t, q)
    /\ tbl_out = Pending

\* The table strategy is applied to the item.
format_table ==
    /\ tbl_pc = "start"
    /\ tbl_out' = _format_table(tbl_obj)
    /\ tbl_pc' = "done"
    /\ UNCHANGED tbl_obj
    /\ UNCHANGED notTable

TableNext ==
    \/ format_table

-----------------------------------------------------------------------------
(* clicore/output.py: _format_tsv and _TsvOutput *)

\* str(data) for the values that are no string
PyStrOf(v) ==
    CASE v.t = "bool" -> IF v.b THEN <<"T", "r", "u", "e">> ELSE <<"F", "a", "l", "s", "e">>
      [] v.t = "int" -> IntToStr(v.n)
      [] OTHER -> <<"N", "o", "n", "e">>

\* _dump_obj, if a bool were written in lower case
_dump_obj_lowercase_bool(data) ==
    IF data.t = "list" THEN IntToStr(Len(data.items))
    ELSE IF data.t = "dict" THEN <<>>
    ELSE IF data.t = "str" THEN data.s
    ELSE IF data.t = "bool" THEN StrLower(PyStrOf(data))
    ELSE PyStrOf(data)

\* _dump_obj(data, stream): what is written to the stream
_dump_obj(data) ==
    IF data.t = "list" THEN IntToStr(Len(data.items))
    ELSE IF data.t = "dict" THEN <<>>
    ELSE IF data.t = "str" THEN data.s
    ELSE PyStrOf(data)

\* The values of a row: of an OrderedDict in its order, of a dict sorted by
\* key, of a list its elements.
RowValues(data) ==
    IF data.t = "dict" /\ ~data.ordered
    THEN LET keys == Sorted(data.keys) IN [i \in 1..Len(keys) |-> DictGet(data, keys[i])]
    ELSE data.items

\* The loop of _dump_row: the values, a tab between two of them.
RECURSIVE DumpValues(_, _)
DumpValues(values, separator) ==
    IF values = <<>> THEN <<>>
    ELSE separator \o _dump_obj(Head(values)) \o DumpValues(Tail(values), <<TAB>>)

\* _dump_row(data, stream)
_dump_row(data) ==
    (IF data.t \in {"dict", "list"} THEN DumpValues(RowValues(data), <<>>)
     ELSE IF data.t = "bool" THEN _dump_obj(PyStr(StrLower(PyStrOf(data))))
     ELSE _dump_obj(data))
        \o <<NL>>

\* _TsvOutput.dump(data)
RECURSIVE TsvDump(_)
TsvDump(data) ==
    IF data = <<>> THEN <<>> ELSE _dump_row(Head(data)) \o TsvDump(Tail(data))

\* _format_tsv(obj)
_format_tsv(o) ==
    LET result == o.result
        result_list == IF result.t = "list" THEN result.items ELSE <<result>>
    IN TsvDump(result_list)

\* The keys and cells of the records of the model.
TsvKeys == { <<"a">>, <<"b">>, <<"c">> }

TsvCells ==
    { PyBool(TRUE), PyBool(FALSE), PyInt(7), PyStr(<<"x">>), PyNone,
      PyList(<<PyInt(1), PyInt(2), PyInt(3)>>), PyDict(<<"k">>, <<PyInt(1)>>) }

\* The example of the specification: {"a": true, "b": [1,2,3]}
TsvExample ==
    PyDict(<< <<"a">>, <<"b">> >>, << PyBool(TRUE), PyList(<<PyInt(1), PyInt(2), PyInt(3)>>) >>)

\* The records of the lists of the model.
TsvRowPool ==
    { PyBool(TRUE), PyBool(FALSE), PyStr(<<"x">>), TsvExample,
      PyList(<<PyBool(FALSE), PyInt(7)>>) }

\* Results that are neither a mapping nor a list.
TsvScalars == { PyBool(TRUE), PyBool(FALSE), PyInt(7), PyStr(<<"x">>), PyNone }

TsvIdle ==
    /\ tsv_pc = "idle"
    /\ tsv_obj = NoItem
    /\ tsv_out = <<>>

\* The item holds a mapping (plain or ordered) of at most MaxKeys cells, a
\* list of one sequence of at most MaxKeys cells, a list of at most MaxRecords
\* records, or a scalar.
TsvInit ==
    /\ tsv_pc = "start"
    /\ \E q \in BOOLEAN :
        \/ \E n \in 0..MaxKeys :
            \E ks \in [1..n -> TsvKeys], vs \in [1..n -> TsvCells], ord \in BOOLEAN :
                /\ DistinctKeys(ks)
                /\ tsv_obj = CommandResultItem(
                                 PyValue("dict", FALSE, 0, <<>>, ks, vs, ord), "None", q)
        \/ \E n \in 0..MaxKeys :
            \E vs \in [1..n -> TsvCells] :
                tsv_obj = CommandResultItem(PyList(<<PyList(vs)>>), "None", q)
        \/ \E n \in 0..MaxRecords :
            \E rows \in [1..n -> TsvRowPool] :
                tsv_obj = CommandResultItem(PyList(rows), "None", q)
        \/ \E r \in TsvScalars :
            tsv_obj = CommandResultItem(r, "None", q)
    /\ tsv_out = <<>>

\* The tsv strategy is applied to the item.
format_tsv ==
    /\ tsv_pc = "start"
    /\ tsv_out' = _format_tsv(tsv_obj)
    /\ tsv_pc' = "done"
    /\ UNCHANGED tsv_obj
    /\ UNCHANGED notTsv

TsvNext ==
    \/ format_tsv

-----------------------------------------------------------------------------
(* knack/help.py: ArgumentGroupRegistry and CLIHelp._print_arguments *)

\* Bounds of the model
MaxParams == 3

\* The priorities of ArgumentGroupRegistry.__init__
NonePriority == 0
GlobalArgumentsPriority == 1000
FirstOtherPriority == 2

\* A group name: None, or a string.
GroupNone == [none |-> TRUE, s |-> <<>>]
Group(s) == [none |-> FALSE, s |-> s]

GlobalArguments ==
    Group(<<"G", "l", "o", "b", "a", "l", " ", "A", "r", "g", "u", "m", "e", "n", "t", "s">>)
Networking == Group(<<"N", "e", "t", "w", "o", "r", "k", "i", "n", "g">>)
Authentication == Group(<<"A", "u", "t", "h">>)

\* list(set(group_list)): every name once
RECURSIVE Distinct(_)
Distinct(seq) ==
    IF seq = <<>> THEN <<>>
    ELSE LET rest == Distinct(Tail(seq))
         IN IF \E i \in 1..Len(rest) : rest[i] = Head(seq) THEN rest ELSE <<Head(seq)>> \o rest

\* ArgumentGroupRegistry(group_list).priorities, as the sorted names of the
\* groups that get the consecutive priorities from FirstOtherPriority on.
ArgumentGroupRegistry(group_list) ==
    SelectSeq(Sorted(Distinct(group_list)), LAMBDA g : g # GlobalArguments.s)

\* self.priorities.get(group_name, 0)
Priority(other_groups, group_name) ==
    IF group_name.none THEN NonePriority
    ELSE IF group_name = GlobalArguments THEN GlobalArgumentsPriority
    ELSE IF \E i \in 1..Len(other_groups) : other_groups[i] = group_name.s
         THEN FirstOtherPriority - 1
                + (CHOOSE i \in 1..Len(other_groups) : other_groups[i] = group_name.s)
         ELSE 0

\* "%06d" % key
RECURSIVE ZeroPad(_, _)
ZeroPad(digits, width) ==
    IF Len(digits) >= width THEN digits ELSE ZeroPad(<<"0">> \o digits, width)

\* get_group_priority with "%d" in place of "%06d"
get_group_priority_unpadded(other_groups, group_name) ==
    IntToStr(Priority(other_groups, group_name))

\* get_group_priority(group_name)
get_group_priority(other_groups, group_name) ==
    ZeroPad(IntToStr(Priority(other_groups, group_name)), 6)

\* str(b)
BoolStr(b) == IF b THEN <<"T", "r", "u", "e">> ELSE <<"F", "a", "l", "s", "e">>

\* _get_parameter_key(parameter)
_get_parameter_key(other_groups, parameter) ==
    get_group_priority(other_groups, parameter.group_name)
        \o BoolStr(~parameter.required)
        \o parameter.name

\* sorted(parameters, key=_get_parameter_key): parameters with equal keys keep
\* their order.
RECURSIVE InsortByKey(_, _, _)
InsortByKey(other_groups, p, sorted) ==
    IF sorted = <<>> THEN <<p>>
    ELSE IF StrLess(_get_parameter_key(other_groups, p),
                    _get_parameter_key(other_groups, Head(sorted)))
         THEN <<p>> \o sorted
         ELSE <<Head(sorted)>> \o InsortByKey(other_groups, p, Tail(sorted))

RECURSIVE SortedByKey(_, _)
SortedByKey(other_groups, parameters) ==
    IF parameters = <<>> THEN <<>>
    ELSE InsortByKey(other_groups, parameters[Len(parameters)],
                     SortedByKey(other_groups,
                                 SubSeq(parameters, 1, Len(parameters) - 1)))

\* The loop of _print_arguments: a banner when the group changes to a named
\* one, then the line of the parameter.
RECURSIVE ArgumentLines(_, _)
ArgumentLines(parameters, last_group_name) ==
    IF parameters = <<>> THEN <<>>
    ELSE LET p == Head(parameters)
             banner == IF p.group_name # last_group_name
                          /\ ~p.group_name.none /\ p.group_name.s # <<>>
                       THEN <<[kind |-> "group", group_name |-> p.group_name,
                               name |-> <<>>, required |-> FALSE]>>
                       ELSE <<>>
         IN banner
              \o <<[kind |-> "parameter", group_name |-> p.group_name,
                    name |-> p.name, required |-> p.required]>>
              \o ArgumentLines(Tail(parameters), p.group_name)

NoneLine ==
    [kind |-> "none", group_name |-> GroupNone, name |-> <<"N", "o", "n", "e">>,
     required |-> FALSE]

\* _print_arguments(help_file): the lines printed
_print_arguments(parameters) ==
    IF parameters = <<>> THEN <<NoneLine>>
    ELSE LET group_list == SelectSeq([i \in 1..Len(parameters) |-> parameters[i].group_name],
                                     LAMBDA g : ~g.none /\ g.s # <<>>)
             group_registry == ArgumentGroupRegistry(
                                   [i \in 1..Len(group_list) |-> group_list[i].s])
         IN ArgumentLines(SortedByKey(group_registry, parameters), GroupNone)

\* The parameters of the model.
ParameterNames == { <<"-", "-", "a">>, <<"-", "-", "b">> }
GroupNames == { GroupNone, Group(<<>>), GlobalArguments, Networking, Authentication }

HelpParameters == [name : ParameterNames, required : BOOLEAN, group_name : GroupNames]

ArgIdle ==
    /\ arg_pc = "idle"
    /\ arg_parameters = <<>>
    /\ arg_out = <<>>

ArgInit ==
    /\ arg_pc = "start"
    /\ \E n \in 0..MaxParams : arg_parameters \in [1..n -> HelpParameters]
    /\ arg_out = <<>>

\* The argument listing of a command is printed.
print_arguments ==
    /\ arg_pc = "start"
    /\ arg_out' = _print_arguments(arg_parameters)
    /\ arg_pc' = "done"
    /\ UNCHANGED arg_parameters
    /\ UNCHANGED notArg

ArgNext ==
    \/ print_arguments

-----------------------------------------------------------------------------
(* HelpObject: the normalization of short_summary and long_summary *)

\* str.strip() removes white space; of the characters modelled these are the
\* blank, the tab and the line break.
IsSpace(c) == c \in {" ", TAB, NL}

RECURSIVE LStrip(_)
LStrip(s) == IF s # <<>> /\ IsSpace(Head(s)) THEN LStrip(Tail(s)) ELSE s

RECURSIVE RStrip(_)
RStrip(s) ==
    IF s # <<>> /\ IsSpace(s[Len(s)]) THEN RStrip(SubSeq(s, 1, Len(s) - 1)) ELSE s

Strip(s) == RStrip(LStrip(s))

\* '.!?'
SentenceEnd == {".", "!", "?"}

\* HelpObject._normalize_text(s), s a str or None, which the setters of
\* short_summary and long_summary store. `s[0]` of the empty text that strip()
\* leaves of a blank text raises IndexError.
_normalize_text(v) ==
    IF ~Truthy(v) \/ Len(v.s) < 2
    THEN [exc |-> "none", s |-> IF Truthy(v) THEN v.s ELSE <<>>]
    ELSE LET s == Strip(v.s)
         IN IF s = <<>>
            THEN [exc |-> "IndexError", s |-> <<>>]
            ELSE LET initial_upper == <<UpperChar(s[1])>> \o Tail(s)
                     trailing_period == IF s[Len(s)] \in SentenceEnd THEN <<>> ELSE <<".">>
                 IN [exc |-> "none", s |-> initial_upper \o trailing_period]

-----------------------------------------------------------------------------
(* CLIHelp.show_help of a command: CommandHelpFile, load, the override merge *)

\* Most entries in the `parameters` list of an override document.
MaxEntries == 2

\* An override document: none, a single long-form string, or a mapping that
\* holds the keys of `has`; parameters is its list of entries [name, has].
Doc(t, text, has, parameters) ==
    [t |-> t, text |-> text, has |-> has, parameters |-> parameters]

NoDoc == Doc("none", <<>>, {}, <<>>)

\* bool(data)
DocTruthy(data) ==
    CASE data.t = "none" -> FALSE
      [] data.t = "str" -> data.text # <<>>
      [] OTHER -> data.has # {}

\* The values the documents of the model hold under their keys; examples is a
\* list of HelpExample.
DocValues ==
    [type |-> <<"c", "o", "m", "m", "a", "n", "d">>,
     short_summary |-> <<"o", "v", "e", "r", "r", "i", "d", "e", " ", "s", "h", "o", "r", "t">>,
     long_summary |-> <<"o", "v", "e", "r", "r", "i", "d", "e", " ", "l", "o", "n", "g">>,
     examples |-> <<[name |-> <<"e", "x">>,
                     text |-> <<"v", "m", " ", "c", "r", "e", "a", "t", "e">>]>>,
     text |-> <<"l", "o", "n", "g", " ", "f", "o", "r", "m">>]

\* The values the entries of `parameters` hold under their keys.
EntryValues ==
    [type |-> <<"i", "n", "t">>,
     short_summary |-> <<"e", "n", "t", "r", "y", " ", "s", "h", "o", "r", "t">>,
     long_summary |-> <<"e", "n", "t", "r", "y", " ", "l", "o", "n", "g">>,
     populator_commands |-> <<<<"v", "m", " ", "l", "i", "s", "t">>>>]

\* ' '.join(sorted(action.option_strings)) of the actions, and the name of an
\* entry for a parameter no command of the model has.
OptionNames ==
    [help |-> <<"-", "-", "h", "e", "l", "p", " ", "-", "h">>,
     name |-> <<"-", "-", "n", "a", "m", "e">>,
     size |-> <<"-", "-", "s", "i", "z", "e">>,
     nonexistent |-> <<"-", "-", "n", "o", "n", "e", "x", "i", "s", "t", "e", "n", "t">>]

\* HelpParameter.__init__
HelpParameter(param_name, description, required, group_name) ==
    [name |-> param_name,
     required |-> required,
     type |-> <<"s", "t", "r", "i", "n", "g">>,
     short_summary |-> _normalize_text(description).s,
     long_summary |-> <<>>,
     value_sources |-> <<>>,
     choices |-> PyNone,
     default |-> PyNone,
     group_name |-> group_name]

\* HelpParameter.update_from_data(data): a key is applied when data.get(key)
\* is true; an exception of a setter leaves the fields set before it.
update_from_data(param, data) ==
    IF param.name # data.name
    THEN [exc |-> "HelpAuthoringException", param |-> param]
    ELSE LET short == _normalize_text(PyStr(EntryValues.short_summary))
             long == _normalize_text(PyStr(EntryValues.long_summary))
             set1 == "type" \in data.has /\ EntryValues.type # <<>>
             set2 == "short-summary" \in data.has /\ EntryValues.short_summary # <<>>
             set3 == "long-summary" \in data.has /\ EntryValues.long_summary # <<>>
             set4 == "populator-commands" \in data.has
                         /\ EntryValues.populator_commands # <<>>
             done2 == ~(set2 /\ short.exc # "none")
             done3 == done2 /\ ~(set3 /\ long.exc # "none")
         IN [exc |-> IF ~done2 THEN short.exc ELSE IF ~done3 THEN long.exc ELSE "none",
             param |-> [param EXCEPT
                 !.type = IF set1 THEN EntryValues.type ELSE @,
                 !.short_summary = IF set2 /\ done2 THEN short.s ELSE @,
                 !.long_summary = IF set3 /\ done3 THEN long.s ELSE @,
                 !.value_sources =
                     IF set4 /\ done3 THEN EntryValues.populator_commands ELSE @]]

\* delimiters = ' '.join(nouns)
CommandPath == <<"v", "m", " ", "c", "r", "e", "a", "t", "e">>

\* delimiters.split()[-1] of a path that has no white space at its ends
RECURSIVE LastWord(_)
LastWord(s) ==
    IF \E i \in 1..Len(s) : IsSpace(s[i]) THEN LastWord(Tail(s)) ELSE s

\* HelpFile.__init__ and CommandHelpFile.__init__: one HelpParameter per
\* action of the parser, the group of '--help -h' set to Global Arguments.
CommandHelpFile(delimiters, parser) ==
    [delimiters |-> delimiters,
     name |-> LastWord(delimiters),
     command |-> delimiters,
     type |-> <<"c", "o", "m", "m", "a", "n", "d">>,
     short_summary |-> <<>>,
     long_summary |-> <<>>,
     examples |-> <<>>,
     parameters |->
         [i \in 1..Len(parser.actions) |->
             LET a == parser.actions[i]
                 p == HelpParameter(a.name, PyStr(a.help), a.required, a.group_name)
             IN IF p.name = OptionNames.help
                THEN [p EXCEPT !.group_name = GlobalArguments] ELSE p]]

\* HelpFile.load(options), up to file_data: the summaries from the description.
\* dot is description.index('.') counted from 1, 0 for ValueError and for the
\* AttributeError of None; joined is ' '.join(long_summary.splitlines()): a
\* line break that ends the text is dropped, every other one becomes a blank.
\* An exception of a setter is not one of those the try statement handles.
load_description(help_file, options) ==
    LET description == options.description
        d == description.s
        dot == IF \E i \in 1..Len(d) : d[i] = "."
               THEN CHOOSE i \in 1..Len(d) : d[i] = "." /\ \A j \in 1..(i - 1) : d[j] # "."
               ELSE 0
        long_summary == LStrip(SubSeq(d, dot + 1, Len(d)))
        kept == IF long_summary # <<>> /\ long_summary[Len(long_summary)] = NL
                THEN SubSeq(long_summary, 1, Len(long_summary) - 1) ELSE long_summary
        joined == [i \in 1..Len(kept) |-> IF kept[i] = NL THEN " " ELSE kept[i]]
        short == _normalize_text(IF dot = 0 THEN description
                                 ELSE PyStr(SubSeq(d, 1, dot - 1)))
        long == _normalize_text(PyStr(joined))
    IN [exc |-> IF short.exc # "none" THEN short.exc
                ELSE IF dot # 0 THEN long.exc ELSE "none",
        help_file |-> [help_file EXCEPT
            !.short_summary = IF short.exc = "none" THEN short.s ELSE @,
            !.long_summary =
                IF dot # 0 /\ short.exc = "none" /\ long.exc = "none" THEN long.s ELSE @]]

\* HelpFile.load(options), the choice of the document: that of the parser
\* (_load_help_file_from_string gives None for no text) if it is true, else
\* what _load_help_file(delimiters) returned.
FileData(options, loaded) ==
    LET file_data == IF options.has_defaults /\ DocTruthy(options.help_file)
                     THEN options.help_file
                     ELSE NoDoc
    IN IF DocTruthy(file_data) THEN file_data ELSE loaded

\* HelpFile._load_from_data(data): type and short-summary are set when the
\* document has the key, long_summary is set to data.get('long-summary') in
\* every case, examples when the document has the key. An exception of a
\* setter leaves the fields set before it.
HelpFile_load_from_data(help_file, data) ==
    IF ~DocTruthy(data) THEN [exc |-> "none", help_file |-> help_file]
    ELSE IF data.t = "str"
    THEN LET long == _normalize_text(PyStr(data.text))
         IN [exc |-> long.exc,
             help_file |-> [help_file EXCEPT
                 !.long_summary = IF long.exc = "none" THEN long.s ELSE @]]
    ELSE LET short == _normalize_text(PyStr(DocValues.short_summary))
             long == _normalize_text(IF "long-summary" \in data.has
                                     THEN PyStr(DocValues.long_summary) ELSE PyNone)
             done2 == ~("short-summary" \in data.has /\ short.exc # "none")
             done3 == done2 /\ long.exc = "none"
         IN [exc |-> IF ~done2 THEN short.exc ELSE long.exc,
             help_file |-> [help_file EXCEPT
                 !.type = IF "type" \in data.has THEN DocValues.type ELSE @,
                 !.short_summary =
                     IF "short-summary" \in data.has /\ done2 THEN short.s ELSE @,
                 !.long_summary = IF done3 THEN long.s ELSE @,
                 !.examples =
                     IF "examples" \in data.has /\ done3 THEN DocValues.examples ELSE @]]

\* The loop of CommandHelpFile._load_from_data from the i-th parameter on.
\* loaded_param is the index of the first entry whose name is param.name, 0
\* for None. update_from_data changes the parameter in place, so the
\* parameters updated before an exception stay updated.
RECURSIVE UpdateParameters(_, _, _)
UpdateParameters(parameters, entries, i) ==
    IF i > Len(parameters) THEN [exc |-> "none", parameters |-> parameters]
    ELSE LET param_name == parameters[i].name
             loaded_param ==
                 IF \E k \in 1..Len(entries) : entries[k].name = param_name
                 THEN CHOOSE k \in 1..Len(entries) :
                          /\ entries[k].name = param_name
                          /\ \A j \in 1..(k - 1) : entries[j].name # param_name
                 ELSE 0
         IN IF loaded_param = 0
            THEN UpdateParameters(parameters, entries, i + 1)
            ELSE LET updated == update_from_data(parameters[i], entries[loaded_param])
                     after == [parameters EXCEPT ![i] = updated.param]
                 IN IF updated.exc # "none"
                    THEN [exc |-> updated.exc, parameters |-> after]
                    ELSE UpdateParameters(after, entries, i + 1)

\* CommandHelpFile._load_from_data(data)
CommandHelpFile_load_from_data(help_file, data) ==
    LET super == HelpFile_load_from_data(help_file, data)
    IN IF super.exc # "none" THEN super
       ELSE IF data.t = "str" \/ super.help_file.parameters = <<>>
               \/ "parameters" \notin data.has \/ data.parameters = <<>>
       THEN super
       ELSE LET updated == UpdateParameters(super.help_file.parameters, data.parameters, 1)
            IN [exc |-> updated.exc,
                help_file |-> [super.help_file EXCEPT !.parameters = updated.parameters]]

\* CLIHelp._print_header and CLIHelp._print_detailed_help of a command
NoOutput == [printed |-> FALSE, header |-> <<>>, arguments |-> <<>>, examples |-> <<>>]

_print_detailed_help(help_file) ==
    [printed |-> TRUE,
     header |-> <<help_file.type, help_file.command, help_file.short_summary,
                  RStrip(help_file.long_summary)>>,
     arguments |-> IF help_file.type = <<"c", "o", "m", "m", "a", "n", "d">>
                   THEN _print_arguments(help_file.parameters) ELSE <<>>,
     examples |-> help_file.examples]

\* The descriptions of the parsers of the model.
DoTheThing == <<"d", "o", " ", "t", "h", "e", " ", "t", "h", "i", "n", "g">>

Descriptions ==
    { PyNone, PyStr(<<>>), PyStr(<<"a">>), PyStr(<<" ", " ">>), PyStr(DoTheThing),
      PyStr(<<"i", "s", " ", "i", "t", " ", "d", "o", "n", "e", "?">>),
      PyStr(<<"c", "r", "e", "a", "t", "e", " ", "a", " ", "v", "m", ".", " ",
              "i", "t", " ", "b", "o", "o", "t", "s", NL, "a", "t", " ", "o", "n", "c", "e">>) }

\* parser._actions: [name, help, required, group_name], '--help -h' always
\* among them.
ActionLists ==
    LET help_action == [name |-> OptionNames.help, help |-> <<"s", "h", "o", "w", " ", "t", "h", "i", "s", " ", "h", "e", "l", "p">>,
                        required |-> FALSE, group_name |-> GroupNone]
        name_action == [name |-> OptionNames.name, help |-> <<"t", "h", "e", " ", "n", "a", "m", "e">>,
                        required |-> TRUE, group_name |-> GroupNone]
        size_action == [name |-> OptionNames.size, help |-> <<"t", "h", "e", " ", "s", "i", "z", "e">>,
                        required |-> FALSE, group_name |-> Networking]
    IN { <<help_action>>, <<help_action, name_action>>,
         <<size_action, help_action, name_action>> }

NoHelpFile ==
    [delimiters |-> <<>>, name |-> <<>>, command |-> <<>>, type |-> <<>>,
     short_summary |-> <<>>, long_summary |-> <<>>, examples |-> <<>>,
     parameters |-> <<>>]

HelpIdle ==
    /\ sh_pc = "idle"
    /\ sh_parser = [description |-> PyNone, help_file |-> NoDoc,
                    has_defaults |-> FALSE, actions |-> <<>>]
    /\ sh_help_files = NoDoc
    /\ sh_help_file = NoHelpFile
    /\ sh_file_data = NoDoc
    /\ sh_raised = "none"
    /\ sh_out = NoOutput

\* The parser holds no document, a long-form string, or a mapping with any of
\* the node-level keys and at most MaxEntries parameter entries, each for
\* --name, --help -h or --nonexistent; _load_help_file holds no document, a
\* string or a mapping.
HelpInit ==
    /\ sh_pc = "start"
    /\ \E description \in Descriptions, has_defaults \in BOOLEAN, actions \in ActionLists :
        \/ \E doc \in {NoDoc, Doc("str", DocValues.text, {}, <<>>)} :
            sh_parser = [description |-> description, help_file |-> doc,
                         has_defaults |-> has_defaults, actions |-> actions]
        \/ \E has \in SUBSET {"type", "short-summary", "long-summary", "examples"} :
            sh_parser = [description |-> description,
                         help_file |-> Doc("dict", <<>>, has, <<>>),
                         has_defaults |-> has_defaults, actions |-> actions]
        \/ \E has \in SUBSET {"type", "short-summary", "long-summary", "examples"},
              n \in 1..MaxEntries :
            \E entries \in
                [1..n -> [name : {OptionNames.name, OptionNames.help, OptionNames.nonexistent},
                          has : { {"short-summary"},
                                  {"type", "long-summary", "populator-commands"} }]] :
                sh_parser = [description |-> description,
                             help_file |-> Doc("dict", <<>>, has \cup {"parameters"}, entries),
                             has_defaults |-> has_defaults, actions |-> actions]
    /\ sh_help_files \in { NoDoc, Doc("str", DocValues.text, {}, <<>>),
                           Doc("dict", <<>>, {"short-summary"}, <<>>) }
    /\ sh_help_file = NoHelpFile
    /\ sh_file_data = NoDoc
    /\ sh_raised = "none"
    /\ sh_out = NoOutput

\* show_help: help_file = CommandHelpFile(delimiters, parser)
show_help ==
    /\ sh_pc = "start"
    /\ sh_help_file' = CommandHelpFile(CommandPath, sh_parser)
    /\ sh_pc' = "load"
    /\ UNCHANGED <<sh_parser, sh_help_files, sh_file_data, sh_raised, sh_out>>
    /\ UNCHANGED notHelp

\* help_file.load(parser) up to the choice of the document. Without a
\* document nothing is merged.
load ==
    /\ sh_pc = "load"
    /\ LET loaded == load_description(sh_help_file, sh_parser)
           data == FileData(sh_parser, sh_help_files)
       IN /\ sh_help_file' = loaded.help_file
          /\ sh_raised' = loaded.exc
          /\ sh_file_data' = IF loaded.exc = "none" THEN data ELSE sh_file_data
          /\ sh_pc' = IF loaded.exc # "none" THEN "raised"
                      ELSE IF DocTruthy(data) THEN "merge" ELSE "print"
    /\ UNCHANGED <<sh_parser, sh_help_files, sh_out>>
    /\ UNCHANGED notHelp

\* self._load_from_data(file_data) of the CommandHelpFile
load_from_data ==
    /\ sh_pc = "merge"
    /\ LET merged == CommandHelpFile_load_from_data(sh_help_file, sh_file_data)
       IN /\ sh_help_file' = merged.help_file
          /\ sh_raised' = merged.exc
          /\ sh_pc' = IF merged.exc # "none" THEN "raised" ELSE "print"
    /\ UNCHANGED <<sh_parser, sh_help_files, sh_file_data, sh_out>>
    /\ UNCHANGED notHelp

\* cls._print_detailed_help(cli_name, help_file)
print_detailed_help ==
    /\ sh_pc = "print"
    /\ sh_out' = _print_detailed_help(sh_help_file)
    /\ sh_pc' = "done"
    /\ UNCHANGED <<sh_parser, sh_help_files, sh_help_file, sh_file_data, sh_raised>>
    /\ UNCHANGED notHelp

HelpNext ==
    \/ show_help
    \/ load
    \/ load_from_data
    \/ print_detailed_help

-----------------------------------------------------------------------------
(* Specifications: one per component, the other components stay idle *)

InitOut == OutInit /\ WelcomeIdle /\ TableIdle /\ TsvIdle /\ ArgIdle /\ HelpIdle
SpecOut == InitOut /\ [][OutNext]_vars

InitWelcome == WelcomeInit /\ OutIdle /\ TableIdle /\ TsvIdle /\ ArgIdle /\ HelpIdle
SpecWelcome == InitWelcome /\ [][WelcomeNext]_vars

InitTable == TableInit /\ OutIdle /\ WelcomeIdle /\ TsvIdle /\ ArgIdle /\ HelpIdle
SpecTable == InitTable /\ [][TableNext]_vars

InitTsv == TsvInit /\ OutIdle /\ WelcomeIdle /\ TableIdle /\ ArgIdle /\ HelpIdle
SpecTsv == InitTsv /\ [][TsvNext]_vars

InitArg == ArgInit /\ OutIdle /\ WelcomeIdle /\ TableIdle /\ TsvIdle /\ HelpIdle
SpecArg == InitArg /\ [][ArgNext]_vars

InitHelp == HelpInit /\ OutIdle /\ WelcomeIdle /\ TableIdle /\ TsvIdle /\ ArgIdle
SpecHelp == InitHelp /\ [][HelpNext]_vars

-----------------------------------------------------------------------------
(* Claims about OutputProducer.out, checked under SpecOut *)

\* C1: no text reaches the stream unless the argument passed the type check
\* and the strategy returned a complete string. A print is attempted only for a
\* CommandResultItem whose strategy ran once and returned; a TypeError leaves
\* out() with the strategy never invoked and nothing printed, an argument of
\* another type always ends in that TypeError, and when the strategy raises no
\* print was attempted. With no print attempted the stream holds what it held
\* when the call started.
C1_NoWriteBeforeFormat ==
    /\ log # <<>> => obj.isItem /\ formatted /\ formatterCalls = 1
    /\ raised = "TypeError" => formatterCalls = 0 /\ log = <<>>
    /\ out_pc = "done" /\ ~obj.isItem => raised = "TypeError"
    /\ raised = "StrategyError" => ~formatted /\ log = <<>>
    /\ log = <<>> => file.content = content0

\* A second call whose strategy raised, after a call that wrote to the stream.
C1_Witness ==
    /\ out_pc = "done"
    /\ raised = "StrategyError"
    /\ file.content # <<>>

\* C2: after a UnicodeEncodeError of the first print the text is printed once
\* more with the characters ASCII cannot encode dropped; a failure of that
\* second print leaves out(); a call prints at most twice.
C2_RetryOnce ==
    /\ Len(log) <= 2
    /\ Len(log) = 2 =>
        /\ log[1].result = "UnicodeEncodeError"
        /\ log[1].text = output
        /\ log[2].text = AsciiIgnore(output)
    /\ out_pc = "done" /\ Len(log) >= 1 /\ log[1].result = "UnicodeEncodeError" =>
        Len(log) = 2
    /\ out_pc = "done" /\ Len(log) = 2 =>
        IF log[2].result = "ok"
        THEN raised = "none" /\ file.content = Append(content0, AsciiIgnore(output))
        ELSE raised = log[2].result /\ file.content = content0

\* The retry failed too.
C2_Witness ==
    /\ out_pc = "done"
    /\ Len(log) = 2
    /\ log[2].result # "ok"

\* C3: a broken pipe raised by any print of out(), the first or the retry, is
\* suppressed and out() returns normally; an IOError with another errno
\* leaves out().
C3_BrokenPipeSuppressed ==
    out_pc = "done" =>
        /\ (\E i \in 1..Len(log) : log[i].result = "IOError:EPIPE") => raised = "none"
        /\ (\E i \in 1..Len(log) : log[i].result = "IOError:EIO") => raised = "IOError:EIO"

-----------------------------------------------------------------------------
(* Claims about CLIHelp.show_welcome, checked under SpecWelcome *)

\* The privacy step of the first invocation is over.
FirstPrivacyStepDone == w_run > 1 \/ (w_run = 1 /\ w_pc # "privacy")

\* The order of the prints inside one invocation.
WhatRank(what) ==
    CASE what = "privacy" -> 1
      [] what = "welcome" -> 2
      [] OTHER -> 3

\* C4: over invocations sharing a store whose core.first_run is unset at first,
\* a privacy notice is printed by the first invocation only (and there whenever
\* the statement is not empty), the flag is set once the privacy step of the
\* first invocation is over and in every state after it, and inside an
\* invocation the notice precedes the welcome message, which precedes the
\* description list (prints of later invocations follow those of earlier ones).
C4_PrivacyOnce ==
    /\ \A i \in 1..Len(printed) :
        printed[i].what = "privacy" => printed[i].run = 1 /\ printed[i].text # <<>>
    /\ Cardinality({i \in 1..Len(printed) : printed[i].what = "privacy"}) <= 1
    /\ (w_run = 1 /\ w_pc # "privacy" /\ w_help.privacy_statement # <<>>) =>
        printed[1] = [run |-> 1, what |-> "privacy", text |-> w_help.privacy_statement]
    /\ FirstPrivacyStepDone => getboolean(config, "core", "first_run", FALSE)
    /\ \A i, j \in 1..Len(printed) :
        i < j =>
            \/ printed[i].run < printed[j].run
            \/ /\ printed[i].run = printed[j].run
               /\ WhatRank(printed[i].what) <= WhatRank(printed[j].what)
    /\ \A r \in 1..w_run :
        (r < w_run \/ w_pc \in {"list", "idle"}) =>
            Cardinality({i \in 1..Len(printed) :
                            printed[i].run = r /\ printed[i].what = "welcome"}) = 1

\* A later invocation with a privacy statement has finished, after a first
\* invocation that had none to print.
C4_Witness ==
    /\ w_run = 3
    /\ w_pc = "idle"
    /\ w_help.privacy_statement # <<>>
    /\ w_help.children # <<>>
    /\ \A i \in 1..Len(printed) : printed[i].what # "privacy"

-----------------------------------------------------------------------------
(* Claims about the table strategy, checked under SpecTable *)

TableDone == tbl_pc = "done"

\* The transform was called and raised.
TransformRaised == tbl_out.transformerCalls = 1 /\ tbl_obj.table_transformer = "raises"

\* A value that is empty: None, the empty string, an empty collection.
IsEmptyValue(v) ==
    \/ v.t = "none"
    \/ v.t = "str" /\ v.s = <<>>
    \/ v.t \in {"list", "dict"} /\ v.items = <<>>
    \/ v.t = "set" /\ v.n = 0

\* The entry has the column of key k: named by the capitalised key, holding v.
HasColumn(entry, k, v) ==
    \E c \in 1..Len(entry.keys) :
        entry.keys[c] = _capitalize_first_char(k) /\ entry.items[c] = v

\* C5: for every mapping record given to the auto-table, no column comes from
\* the keys id, type, etag, none from a key whose value is empty, a list, a
\* mapping or a set, and every other key is a column named by the key with its
\* first character capitalised.
C5_AutoTableColumns ==
    TableDone /\ ~TransformRaised =>
        \A r \in 1..Len(tbl_out.data) :
            tbl_out.data[r].t = "dict" =>
                \A i \in 1..Len(tbl_out.data[r].keys) :
                    LET k == tbl_out.data[r].keys[i]
                        v == tbl_out.data[r].items[i]
                    IN HasColumn(tbl_out.table_data[r], k, v)
                        <=> /\ ~InSkipKeys(k)
                            /\ ~IsEmptyValue(v)
                            /\ v.t \notin {"list", "dict", "set"}

\* The example with neither a transform nor a query.
ExampleFormatted ==
    /\ TableDone
    /\ tbl_obj.result = ExampleResult
    /\ tbl_obj.table_transformer = "None"
    /\ ~tbl_obj.is_query_active

\* C6 as stated: the example gives a table whose only column is Name, with the
\* single row foo.
C6_ExampleOnlyName ==
    ExampleFormatted =>
        /\ tbl_out.exc = "none"
        /\ tbl_out.text.headers = << <<"N", "a", "m", "e">> >>
        /\ tbl_out.text.rows = << <<PyStr(Foo)>> >>

\* C6 amended: the example gives a table with the columns Id and Name, in
\* that order, and the single row 1, foo; only Tags is dropped.
C6_ExampleIdAndName ==
    ExampleFormatted =>
        /\ tbl_out.exc = "none"
        /\ tbl_out.newline
        /\ tbl_out.text.kind = "table"
        /\ tbl_out.text.headers = << <<"I", "d">>, <<"N", "a", "m", "e">> >>
        /\ tbl_out.text.rows = << <<PyStr(<<"1">>), PyStr(Foo)>> >>

C6_Witness == ExampleFormatted /\ tbl_out.exc = "none"

\* No column can be extracted from the data given to dump().
ZeroColumns == \A r \in 1..Len(tbl_out.table_data) : tbl_out.table_data[r].keys = <<>>

\* C7 as stated: a single record, a non-empty list or an empty list with no
\* extractable column raises CLIError, and so does every other exception
\* raised inside the table formatting.
C7_ZeroColumnsRaise ==
    TableDone =>
        /\ tbl_out.exc \in {"none", "CLIError"}
        /\ TransformRaised => tbl_out.exc = "CLIError"
        /\ ~TransformRaised /\ ZeroColumns => tbl_out.exc = "CLIError"

\* C7 amended: a single record or a non-empty list with no extractable column
\* raises CLIError, an empty list is formatted as a lone line break, every
\* exception raised inside the table formatting surfaces as CLIError, and
\* CLIError is raised in no other case.
C7_ZeroColumnsRaiseUnlessEmpty ==
    TableDone =>
        /\ tbl_out.exc \in {"none", "CLIError"}
        /\ TransformRaised => tbl_out.exc = "CLIError"
        /\ ~TransformRaised /\ tbl_out.data # <<>> /\ ZeroColumns => tbl_out.exc = "CLIError"
        /\ ~TransformRaised /\ tbl_out.data = <<>> =>
            /\ tbl_out.exc = "none"
            /\ tbl_out.text = EmptyText
            /\ tbl_out.newline
        /\ tbl_out.exc = "CLIError" =>
            TransformRaised \/ (tbl_out.data # <<>> /\ ZeroColumns)

\* A list of two records without any column was refused.
C7_Witness ==
    /\ TableDone
    /\ Len(tbl_out.data) = 2
    /\ ZeroColumns
    /\ tbl_out.exc = "CLIError"

\* The place, among the fields of the record, of the key that gave the column
\* (a reserved key gives none).
KeyOfColumn(record, column) ==
    CHOOSE i \in 1..Len(record.keys) :
        /\ _capitalize_first_char(record.keys[i]) = column
        /\ ~InSkipKeys(record.keys[i])

\* C8: the transform is called exactly when one is supplied and no query was
\* applied, and what dump() gets is its result; the columns of each mapping
\* record are in the order of the sorted keys when neither a query nor a
\* transform was applied, and in every other case in the order of the fields
\* of the record as produced.
C8_TransformAndOrder ==
    TableDone =>
        LET applied == tbl_obj.table_transformer # "None" /\ ~tbl_obj.is_query_active
            produced == IF applied
                        THEN CallTransformer(tbl_obj.table_transformer, tbl_obj.result).value
                        ELSE tbl_obj.result
        IN /\ tbl_out.transformerCalls = IF applied THEN 1 ELSE 0
           /\ ~TransformRaised =>
               /\ tbl_out.data = IF produced.t = "list" THEN produced.items ELSE <<produced>>
               /\ \A r \in 1..Len(tbl_out.data) :
                    tbl_out.data[r].t = "dict" =>
                        \A c, d \in 1..Len(tbl_out.table_data[r].keys) :
                            c < d =>
                                LET i == KeyOfColumn(tbl_out.data[r], tbl_out.table_data[r].keys[c])
                                    j == KeyOfColumn(tbl_out.data[r], tbl_out.table_data[r].keys[d])
                                IN IF ~tbl_obj.is_query_active /\ ~applied
                                   THEN StrLess(tbl_out.data[r].keys[i], tbl_out.data[r].keys[j])
                                   ELSE i < j

\* A transform was applied and the columns of a record are not in sorted order.
C8_Witness ==
    /\ TableDone
    /\ tbl_out.transformerCalls = 1
    /\ tbl_out.exc = "none"
    /\ \E r \in 1..Len(tbl_out.table_data) :
        /\ Len(tbl_out.table_data[r].keys) = 2
        /\ StrLess(tbl_out.table_data[r].keys[2], tbl_out.table_data[r].keys[1])

-----------------------------------------------------------------------------
(* Claims about the tsv strategy, checked under SpecTsv *)

\* The rendering of a cell the claim states: a bool in lower case, a list as
\* its length.
RECURSIVE ClaimedValues(_, _)
ClaimedValues(values, separator) ==
    IF values = <<>> THEN <<>>
    ELSE separator \o _dump_obj_lowercase_bool(Head(values))
            \o ClaimedValues(Tail(values), <<TAB>>)

ClaimedRow(data) ==
    (IF data.t \in {"dict", "list"} THEN ClaimedValues(RowValues(data), <<>>)
     ELSE _dump_obj_lowercase_bool(data))
        \o <<NL>>

RECURSIVE ClaimedTsv(_)
ClaimedTsv(data) ==
    IF data = <<>> THEN <<>> ELSE ClaimedRow(Head(data)) \o ClaimedTsv(Tail(data))

\* C9: every bool is rendered as true or false, as a whole record and as a
\* cell of a mapping or sequence record, and a list cell as its length; the
\* example {"a": true, "b": [1,2,3]} gives the line true<TAB>3.
C9_TsvBooleansLowercase ==
    tsv_pc = "done" =>
        /\ tsv_out = ClaimedTsv(IF tsv_obj.result.t = "list"
                                THEN tsv_obj.result.items
                                ELSE <<tsv_obj.result>>)
        /\ tsv_obj.result = TsvExample =>
            tsv_out = <<"t", "r", "u", "e", TAB, "3", NL>>

-----------------------------------------------------------------------------
(* Claims about the argument listing, checked under SpecArg *)

\* The parameter lines of the listing, in the order printed.
ListedParameters ==
    LET lines == SelectSeq(arg_out, LAMBDA l : l.kind = "parameter")
    IN [i \in 1..Len(lines) |->
          [name |-> lines[i].name, required |-> lines[i].required,
           group_name |-> lines[i].group_name]]

\* Without a group: the group name is None or empty.
Ungrouped(g) == g.none \/ g.s = <<>>

\* The groups as the claim orders them: ungrouped, then the other groups by
\* name, then Global Arguments.
GroupBefore(g, h) ==
    \/ Ungrouped(g) /\ ~Ungrouped(h)
    \/ ~Ungrouped(g) /\ g # GlobalArguments /\ h = GlobalArguments
    \/ /\ ~Ungrouped(g) /\ g # GlobalArguments
       /\ ~Ungrouped(h) /\ h # GlobalArguments
       /\ StrLess(g.s, h.s)

SameGroup(g, h) == (Ungrouped(g) /\ Ungrouped(h)) \/ g = h

\* p may be listed before q.
ListedBefore(p, q) ==
    \/ GroupBefore(p.group_name, q.group_name)
    \/ /\ SameGroup(p.group_name, q.group_name)
       /\ \/ p.required /\ ~q.required
          \/ p.required = q.required /\ StrLeq(p.name, q.name)

\* The registry _print_arguments builds for the parameters of the command.
RegistryOfCommand ==
    LET named == SelectSeq([i \in 1..Len(arg_parameters) |-> arg_parameters[i].group_name],
                           LAMBDA g : ~g.none /\ g.s # <<>>)
    IN ArgumentGroupRegistry([i \in 1..Len(named) |-> named[i].s])

\* (rank, isOptional, name) of p is smaller than that of q.
TupleLess(p, q) ==
    LET rp == Priority(RegistryOfCommand, p.group_name)
        rq == Priority(RegistryOfCommand, q.group_name)
    IN \/ rp < rq
       \/ rp = rq /\ p.required /\ ~q.required
       \/ rp = rq /\ p.required = q.required /\ StrLess(p.name, q.name)

\* C10: the listing holds every parameter once; ungrouped parameters come
\* first, then those of the other groups by group name, then those of Global
\* Arguments; inside a group the required ones come first and parameters with
\* the same required flag are ordered by name. The string key orders the
\* parameters as the tuple (rank, isOptional, name) does.
C10_ArgumentOrder ==
    arg_pc = "done" =>
        /\ Len(ListedParameters) = Len(arg_parameters)
        /\ \A p \in HelpParameters :
            Cardinality({i \in 1..Len(ListedParameters) : ListedParameters[i] = p})
                = Cardinality({i \in 1..Len(arg_parameters) : arg_parameters[i] = p})
        /\ \A i, j \in 1..Len(ListedParameters) :
            i < j => ListedBefore(ListedParameters[i], ListedParameters[j])
        /\ \A i, j \in 1..Len(arg_parameters) :
            StrLess(_get_parameter_key(RegistryOfCommand, arg_parameters[i]),
                    _get_parameter_key(RegistryOfCommand, arg_parameters[j]))
                <=> TupleLess(arg_parameters[i], arg_parameters[j])

\* Parameters of Global Arguments, of another group and of no group, given in
\* that order, are listed in the reverse order.
C10_Witness ==
    /\ arg_pc = "done"
    /\ Len(arg_parameters) = 3
    /\ arg_parameters[1].group_name = GlobalArguments
    /\ arg_parameters[2].group_name = Networking
    /\ arg_parameters[3].group_name = GroupNone
    /\ ListedParameters = <<arg_parameters[3], arg_parameters[2], arg_parameters[1]>>

-----------------------------------------------------------------------------
(* C11: summaries are stored normalized *)

\* No white space at either end; if not empty, the first character is its own
\* upper case and the last one ends a sentence.
IsNormalized(t) ==
    t # <<>> =>
        /\ ~IsSpace(t[1])
        /\ ~IsSpace(t[Len(t)])
        /\ t[1] = UpperChar(t[1])
        /\ t[Len(t)] \in SentenceEnd

\* load() has assigned a string, the description or its first sentence, to
\* short_summary of the command.
DescriptionAssigned ==
    sh_pc \in {"merge", "print", "done", "raised"} /\ sh_parser.description.t = "str"

\* C11: after the assignment of any string to short_summary or long_summary of
\* a help node or parameter the assignment has not failed and the stored value
\* is normalized: no white space at its ends and, if not empty, an upper-cased
\* first character and a last character among . ! ? ; "do the thing" is stored
\* as "Do the thing." and a text ending in ? gets no period.
C11_SummaryNormalized ==
    DescriptionAssigned =>
        /\ sh_raised = "none"
        /\ IsNormalized(sh_help_file.short_summary)
        /\ IsNormalized(sh_help_file.long_summary)
        /\ \A i \in 1..Len(sh_help_file.parameters) :
               /\ IsNormalized(sh_help_file.parameters[i].short_summary)
               /\ IsNormalized(sh_help_file.parameters[i].long_summary)
        /\ (sh_pc = "merge" /\ sh_parser.description.s = DoTheThing) =>
               sh_help_file.short_summary = <<"D">> \o Tail(DoTheThing) \o <<".">>
        /\ (sh_pc = "merge" /\ sh_parser.description.s # <<>>
                /\ sh_parser.description.s[Len(sh_parser.description.s)] = "?") =>
               /\ sh_help_file.short_summary # <<>>
               /\ sh_help_file.short_summary[Len(sh_help_file.short_summary)] = "?"

-----------------------------------------------------------------------------
(* C12: an override entry for a parameter the command does not have *)

\* The merged document holds a parameter entry that names no live parameter.
HasStrayEntry ==
    /\ sh_file_data.t = "dict"
    /\ "parameters" \in sh_file_data.has
    /\ \E i \in 1..Len(sh_file_data.parameters) :
           \A k \in 1..Len(sh_help_file.parameters) :
               sh_file_data.parameters[i].name # sh_help_file.parameters[k].name

\* C12: when the override document merged into the help of a command holds a
\* parameter entry whose name (such as --nonexistent) is the name of no live
\* parameter of the command, the merge raises HelpAuthoringException, and no
\* help output has been produced.
C12_StrayEntryRaises ==
    (sh_pc \in {"print", "done", "raised"} /\ HasStrayEntry) =>
        /\ sh_raised = "HelpAuthoringException"
        /\ sh_out = NoOutput

-----------------------------------------------------------------------------
(* C13: the merge changes only the fields the document holds *)

\* The step that merges a structured document.
MergesStructured == sh_pc = "merge" /\ sh_pc' # "merge" /\ sh_file_data.t = "dict"

\* C13: merging a structured override document changes only the node-level
\* fields the document holds: each of type, short-summary, long-summary and
\* examples for which the document has no entry keeps after the merge the value
\* it had before it (a document without long-summary leaves the long summary
\* taken from the description as it was).
C13_MergeKeepsAbsentFields ==
    [][MergesStructured =>
        /\ "type" \notin sh_file_data.has => sh_help_file'.type = sh_help_file.type
        /\ "short-summary" \notin sh_file_data.has =>
               sh_help_file'.short_summary = sh_help_file.short_summary
        /\ "long-summary" \notin sh_file_data.has =>
               sh_help_file'.long_summary = sh_help_file.long_summary
        /\ "examples" \notin sh_file_data.has =>
               sh_help_file'.examples = sh_help_file.examples]_vars

====
